---- MODULE Spec2Model ----
(***************************************************************************)
(* Model of gfx/src/ui.rs (the Element builder) and gfx/src/state.rs (the  *)
(* renderer State: new, configure_surface, resize, render).                *)
(*                                                                         *)
(* f32 values are written as integers in units of 1e-8, so 1.0 is          *)
(* 100000000 and -0.0868241 is -8682410.                                   *)
(***************************************************************************)
EXTENDS Integers, Sequences, FiniteSets, TLC

\* ------------------------------------------------------------------ bounds
MaxShapeLen == 2   \* longest argument given to with_shape
MaxCalls == 4      \* builder calls made on one Element
MaxDim == 1        \* widths and heights range over 0..MaxDim
MaxCaps == 2       \* longest capability list returned by get_capabilities
MaxOps == 3        \* resize / render calls made by the event loop

\* ------------------------------------------------------------ ui.rs, data
PointA == <<-8682410, 49240386, 0>>
PointB == <<-49513406, 6958647, 0>>
PointC == <<-21918549, -44939706, 0>>

TransparentBlack == <<0, 0, 0, 0>>
ElementColor == <<100000000, 0, 0, 0>>

\* state.rs:10-14
Vertex(position, color) ==
  [position |-> position, padding |-> <<0>>, color |-> color]

\* state.rs:16-20
VERTICES ==
  << [position |-> PointA, padding |-> <<0>>, color |-> <<100000000, 0, 0, 50000000>>],
     [position |-> PointB, padding |-> <<0>>, color |-> <<0, 100000000, 0, 50000000>>],
     [position |-> PointC, padding |-> <<0>>, color |-> <<0, 0, 100000000, 50000000>>] >>

INDICES_shifted == <<1, 2, 3>>

\* state.rs:22-24
INDICES == <<0, 1, 2>>

\* inputs of the builder
Points == {PointA, PointB, PointC}
Colors == {TransparentBlack, ElementColor, <<0, 0, 100000000, 50000000>>}
SeqsUpTo(S, n) == UNION {[1..k -> S] : k \in 0..n}
Shapes == SeqsUpTo(Points, MaxShapeLen)

\* ------------------------------------------------------- ui.rs, functions
\* ui.rs:9-14
Element_new == [shape |-> <<>>, color |-> TransparentBlack]

with_shape_append(e, shape) == [e EXCEPT !.shape = e.shape \o shape]

\* ui.rs:25-28
with_shape(e, shape) == [e EXCEPT !.shape = shape]

with_color_if_unset(e, color) ==
  IF e.color = TransparentBlack THEN [e EXCEPT !.color = color] ELSE e

\* ui.rs:30-33
with_color(e, color) == [e EXCEPT !.color = color]

\* ui.rs:17-22, the loop: one push per point, in iteration order
RECURSIVE build_loop(_, _, _)
build_loop(rest, color, out) ==
  IF rest = <<>> THEN out
  ELSE build_loop(Tail(rest), color, Append(out, Vertex(Head(rest), color)))

\* ui.rs:16-23
build(e) == build_loop(e.shape, e.color, <<>>)

\* --------------------------------------------------- state.rs, functions
Formats == {"Bgra8Unorm", "Bgra8UnormSrgb", "Rgba16Float"}

\* wgpu::TextureFormat::add_srgb_suffix as used at state.rs:181 and :209
add_srgb_suffix(f) == IF f = "Bgra8Unorm" THEN "Bgra8UnormSrgb" ELSE f

Sizes == [width : 0..MaxDim, height : 0..MaxDim]
CapLists == SeqsUpTo(Formats, MaxCaps)

\* state.rs:177-187, the SurfaceConfiguration built from self
configure_surface(sz, fmt) ==
  [usage |-> "RENDER_ATTACHMENT",
   format |-> fmt,
   view_formats |-> {add_srgb_suffix(fmt)},
   alpha_mode |-> "Opaque",
   width |-> sz.width,
   height |-> sz.height,
   present_mode |-> "AutoVsync"]

\* state.rs:188, Surface::configure: a zero width or height is outside the
\* API's contract, so the call either goes through or panics
ConfigureOutcomes(sz) ==
  IF sz.width = 0 \/ sz.height = 0 THEN {"ok", "panic"} ELSE {"ok"}

\* state.rs:101-137, the part of the pipeline descriptor that matters here
RenderPipeline(fmt) ==
  [target_format |-> fmt, blend |-> "REPLACE", topology |-> "TriangleList"]

NoConfig == configure_surface([width |-> 0, height |-> 0], "none")
NoDraw == [first |-> 0, count |-> 0, pipeline |-> RenderPipeline("none"),
           vertices |-> <<>>, indices |-> <<>>, clear |-> "none",
           view_format |-> "none"]

\* ------------------------------------------------------------------ state
VARIABLES
  \* an Element being built (ui.rs)
  element,        \* the builder value
  epc,            \* "building" | "built"
  output,         \* the Vec<Vertex> returned by build
  shape_arg,      \* argument of the most recent with_shape call, if any
  color_arg,      \* argument of the most recent with_color call, if any
  hist,           \* builder calls made on this Element, in order
  \* the renderer (state.rs)
  pc,             \* position of the running handler, "idle" between handlers
  handler,        \* handler that is running or ran last
  a,              \* local `a` of State::new
  size, surface_format, render_pipeline, vertex_buffer, index_buffer, num_indices,
  surface_config, \* configuration last passed to Surface::configure
  n_configure,    \* Surface::configure calls so far
  n_submit,       \* Queue::submit calls so far
  n_present,      \* SurfaceTexture::present calls so far
  calls,          \* device / surface calls made by the current handler call
  texture_view,   \* format of the view created by the running render
  last_draw,      \* the draw_indexed call recorded by the running render
  size_arg,       \* window.inner_size() read by new, then last resize argument
  abort_at,       \* call whose failure terminated the program, or "none"
  ops             \* resize / render calls started

evars == <<element, epc, output, shape_arg, color_arg, hist>>
gpu == <<size, surface_format, render_pipeline, vertex_buffer, index_buffer, num_indices>>
svars == <<pc, handler, a, size, surface_format, render_pipeline, vertex_buffer,
           index_buffer, num_indices, surface_config, n_configure, n_submit,
           n_present, calls, texture_view, last_draw, size_arg, abort_at, ops>>
vars == <<evars, svars>>

InitElement ==
  /\ element = Element_new
  /\ epc = "building"
  /\ output = <<>>
  /\ shape_arg = [called |-> FALSE, v |-> <<>>]
  /\ color_arg = [called |-> FALSE, v |-> TransparentBlack]
  /\ hist = <<>>

InitState ==
  /\ pc = "start"
  /\ handler = "none"
  /\ a = <<>>
  /\ size = [width |-> 0, height |-> 0]
  /\ surface_format = "none"
  /\ render_pipeline = RenderPipeline("none")
  /\ vertex_buffer = <<>>
  /\ index_buffer = <<>>
  /\ num_indices = 0
  /\ surface_config = NoConfig
  /\ n_configure = 0
  /\ n_submit = 0
  /\ n_present = 0
  /\ calls = <<>>
  /\ texture_view = "none"
  /\ last_draw = NoDraw
  /\ size_arg = [width |-> 0, height |-> 0]
  /\ abort_at = "none"
  /\ ops = 0

Init == InitElement /\ InitState

\* ------------------------------------------------- ui.rs, builder actions
\* ui.rs:9-14, a fresh Element replaces a consumed one
ElementNew ==
  /\ epc = "built"
  /\ element' = Element_new
  /\ epc' = "building"
  /\ output' = <<>>
  /\ shape_arg' = [called |-> FALSE, v |-> <<>>]
  /\ color_arg' = [called |-> FALSE, v |-> TransparentBlack]
  /\ hist' = <<>>
  /\ UNCHANGED svars

\* ui.rs:25-28
WithShape(shape) ==
  /\ epc = "building" /\ Len(hist) < MaxCalls
  /\ element' = with_shape(element, shape)
  /\ shape_arg' = [called |-> TRUE, v |-> shape]
  /\ hist' = Append(hist, "with_shape")
  /\ UNCHANGED <<epc, output, color_arg, svars>>

\* ui.rs:30-33
WithColor(color) ==
  /\ epc = "building" /\ Len(hist) < MaxCalls
  /\ element' = with_color(element, color)
  /\ color_arg' = [called |-> TRUE, v |-> color]
  /\ hist' = Append(hist, "with_color")
  /\ UNCHANGED <<epc, output, shape_arg, svars>>

\* ui.rs:16-23, build consumes the builder
Build ==
  /\ epc = "building"
  /\ output' = build(element)
  /\ epc' = "built"
  /\ hist' = Append(hist, "build")
  /\ UNCHANGED <<element, shape_arg, color_arg, svars>>

NextElement ==
  \/ ElementNew
  \/ \E shape \in Shapes : WithShape(shape)
  \/ \E color \in Colors : WithColor(color)
  \/ Build

SpecElement == Init /\ [][NextElement]_vars

\* ------------------------------------------- state.rs, renderer actions
\* state.rs:62-77: the Element is built and the surface created before any
\* adapter is requested
State_new_begin ==
  /\ pc = "start"
  /\ handler' = "new"
  /\ a' = build(with_shape(with_color(Element_new, ElementColor),
                           <<PointA, PointB, PointC>>))
  /\ calls' = <<"create_surface">>
  /\ pc' = "request_adapter"
  /\ UNCHANGED <<evars, gpu, surface_config, n_configure, n_submit, n_present,
                 texture_view, last_draw, size_arg, abort_at, ops>>

\* state.rs:79-82, request_adapter(..).await.unwrap() with Ok
State_new_request_adapter ==
  /\ pc = "request_adapter"
  /\ calls' = Append(calls, "request_adapter")
  /\ pc' = "request_device"
  /\ UNCHANGED <<evars, handler, a, gpu, surface_config, n_configure, n_submit,
                 n_present, texture_view, last_draw, size_arg, abort_at, ops>>

State_new_adapter_fail_degraded ==
  /\ pc = "request_adapter"
  /\ calls' = Append(calls, "request_adapter")
  /\ abort_at' = "request_adapter"
  /\ pc' = "request_device"
  /\ UNCHANGED <<evars, handler, a, gpu, surface_config, n_configure, n_submit,
                 n_present, texture_view, last_draw, size_arg, ops>>

\* state.rs:79-82, request_adapter(..).await.unwrap() with Err: panic
State_new_adapter_fail ==
  /\ pc = "request_adapter"
  /\ calls' = Append(calls, "request_adapter")
  /\ abort_at' = "request_adapter"
  /\ pc' = "aborted"
  /\ UNCHANGED <<evars, handler, a, gpu, surface_config, n_configure, n_submit,
                 n_present, texture_view, last_draw, size_arg, ops>>

\* state.rs:83-86, request_device(..).await.unwrap() with Ok
State_new_request_device ==
  /\ pc = "request_device"
  /\ calls' = Append(calls, "request_device")
  /\ pc' = "setup"
  /\ UNCHANGED <<evars, handler, a, gpu, surface_config, n_configure, n_submit,
                 n_present, texture_view, last_draw, size_arg, abort_at, ops>>

\* state.rs:83-86, request_device(..).await.unwrap() with Err: panic
State_new_device_fail ==
  /\ pc = "request_device"
  /\ calls' = Append(calls, "request_device")
  /\ abort_at' = "request_device"
  /\ pc' = "aborted"
  /\ UNCHANGED <<evars, handler, a, gpu, surface_config, n_configure, n_submit,
                 n_present, texture_view, last_draw, size_arg, ops>>

\* state.rs:88-91 when the capability list is empty: cap.formats[0] panics
State_new_no_format(inner_size, formats) ==
  /\ pc = "setup"
  /\ formats = <<>>
  /\ size_arg' = inner_size
  /\ calls' = calls \o <<"inner_size", "get_capabilities">>
  /\ abort_at' = "formats[0]"
  /\ pc' = "aborted"
  /\ UNCHANGED <<evars, handler, a, gpu, surface_config, n_configure, n_submit,
                 n_present, texture_view, last_draw, ops>>

State_new_setup_VERTICES(inner_size, formats, outcome) ==
  /\ pc = "setup"
  /\ formats # <<>>
  /\ outcome \in ConfigureOutcomes(inner_size)
  /\ size_arg' = inner_size
  /\ size' = inner_size
  /\ surface_format' = formats[1]
  /\ render_pipeline' = RenderPipeline(formats[1])
  /\ vertex_buffer' = VERTICES
  /\ index_buffer' = INDICES
  /\ num_indices' = Len(INDICES)
  /\ surface_config' = configure_surface(inner_size, formats[1])
  /\ n_configure' = n_configure + 1
  /\ calls' = calls \o <<"inner_size", "get_capabilities", "create_shader_module",
                         "create_pipeline_layout", "create_render_pipeline",
                         "create_buffer_init(vertex)", "create_buffer_init(index)",
                         "configure">>
  /\ pc' = IF outcome = "ok" THEN "idle" ELSE "aborted"
  /\ abort_at' = IF outcome = "ok" THEN abort_at ELSE "configure"
  /\ UNCHANGED <<evars, handler, a, n_submit, n_present, texture_view, last_draw, ops>>

\* state.rs:88-170: size, format, pipeline, buffers, then configure_surface
State_new_setup(inner_size, formats, outcome) ==
  /\ pc = "setup"
  /\ formats # <<>>
  /\ outcome \in ConfigureOutcomes(inner_size)
  /\ size_arg' = inner_size
  /\ size' = inner_size
  /\ surface_format' = formats[1]
  /\ render_pipeline' = RenderPipeline(formats[1])
  /\ vertex_buffer' = a
  /\ index_buffer' = INDICES
  /\ num_indices' = Len(INDICES)
  /\ surface_config' = configure_surface(inner_size, formats[1])
  /\ n_configure' = n_configure + 1
  /\ calls' = calls \o <<"inner_size", "get_capabilities", "create_shader_module",
                         "create_pipeline_layout", "create_render_pipeline",
                         "create_buffer_init(vertex)", "create_buffer_init(index)",
                         "configure">>
  /\ pc' = IF outcome = "ok" THEN "idle" ELSE "aborted"
  /\ abort_at' = IF outcome = "ok" THEN abort_at ELSE "configure"
  /\ UNCHANGED <<evars, handler, a, n_submit, n_present, texture_view, last_draw, ops>>

resize_skip_zero(new_size, outcome) ==
  /\ pc = "idle" /\ ops < MaxOps
  /\ outcome \in ConfigureOutcomes(new_size)
  /\ handler' = "resize"
  /\ ops' = ops + 1
  /\ size_arg' = new_size
  /\ IF new_size.width > 0 /\ new_size.height > 0
       THEN /\ size' = new_size
            /\ surface_config' = configure_surface(new_size, surface_format)
            /\ n_configure' = n_configure + 1
            /\ calls' = <<"configure">>
       ELSE /\ calls' = <<>>
            /\ UNCHANGED <<size, surface_config, n_configure>>
  /\ UNCHANGED <<pc, abort_at>>
  /\ UNCHANGED <<evars, a, surface_format, render_pipeline, vertex_buffer,
                 index_buffer, num_indices, n_submit, n_present, texture_view,
                 last_draw>>

\* state.rs:191-196
resize(new_size, outcome) ==
  /\ pc = "idle" /\ ops < MaxOps
  /\ outcome \in ConfigureOutcomes(new_size)
  /\ handler' = "resize"
  /\ ops' = ops + 1
  /\ size_arg' = new_size
  /\ size' = new_size
  /\ surface_config' = configure_surface(new_size, surface_format)
  /\ n_configure' = n_configure + 1
  /\ calls' = <<"configure">>
  /\ pc' = IF outcome = "ok" THEN "idle" ELSE "aborted"
  /\ abort_at' = IF outcome = "ok" THEN abort_at ELSE "configure"
  /\ UNCHANGED <<evars, a, surface_format, render_pipeline, vertex_buffer,
                 index_buffer, num_indices, n_submit, n_present, texture_view,
                 last_draw>>

\* state.rs:200-211, get_current_texture() is Ok, then the view is created
render_acquire ==
  /\ pc = "idle" /\ ops < MaxOps
  /\ handler' = "render"
  /\ ops' = ops + 1
  /\ calls' = <<"get_current_texture", "create_view">>
  /\ texture_view' = add_srgb_suffix(surface_format)
  /\ last_draw' = NoDraw
  /\ pc' = "render_encode"
  /\ UNCHANGED <<evars, a, gpu, surface_config, n_configure, n_submit, n_present,
                 size_arg, abort_at>>

render_acquire_fail_return ==
  /\ pc = "idle" /\ ops < MaxOps
  /\ handler' = "render"
  /\ ops' = ops + 1
  /\ calls' = <<"get_current_texture">>
  /\ abort_at' = "get_current_texture"
  /\ texture_view' = "none"
  /\ last_draw' = NoDraw
  /\ pc' = "idle"
  /\ UNCHANGED <<evars, a, gpu, surface_config, n_configure, n_submit, n_present,
                 size_arg>>

\* state.rs:200-203, get_current_texture() is Err: expect panics
render_acquire_fail ==
  /\ pc = "idle" /\ ops < MaxOps
  /\ handler' = "render"
  /\ ops' = ops + 1
  /\ calls' = <<"get_current_texture">>
  /\ abort_at' = "get_current_texture"
  /\ texture_view' = "none"
  /\ last_draw' = NoDraw
  /\ pc' = "aborted"
  /\ UNCHANGED <<evars, a, gpu, surface_config, n_configure, n_submit, n_present,
                 size_arg>>

render_encode_draw_after_pass ==
  /\ pc = "render_encode"
  /\ calls' = calls \o <<"create_command_encoder", "begin_render_pass",
                         "set_pipeline", "set_vertex_buffer", "set_index_buffer",
                         "end_render_pass", "draw_indexed">>
  /\ last_draw' = [first |-> 0, count |-> num_indices, pipeline |-> render_pipeline,
                   vertices |-> vertex_buffer, indices |-> index_buffer,
                   clear |-> "TRANSPARENT", view_format |-> texture_view]
  /\ pc' = "render_submit"
  /\ UNCHANGED <<evars, handler, a, gpu, surface_config, n_configure, n_submit,
                 n_present, texture_view, size_arg, abort_at, ops>>

\* state.rs:214-238, the render pass: clear, bind, one draw_indexed, drop
render_encode ==
  /\ pc = "render_encode"
  /\ calls' = calls \o <<"create_command_encoder", "begin_render_pass",
                         "set_pipeline", "set_vertex_buffer", "set_index_buffer",
                         "draw_indexed", "end_render_pass">>
  /\ last_draw' = [first |-> 0, count |-> num_indices, pipeline |-> render_pipeline,
                   vertices |-> vertex_buffer, indices |-> index_buffer,
                   clear |-> "TRANSPARENT", view_format |-> texture_view]
  /\ pc' = "render_submit"
  /\ UNCHANGED <<evars, handler, a, gpu, surface_config, n_configure, n_submit,
                 n_present, texture_view, size_arg, abort_at, ops>>

\* state.rs:241
render_submit ==
  /\ pc = "render_submit"
  /\ calls' = calls \o <<"finish", "submit">>
  /\ n_submit' = n_submit + 1
  /\ pc' = "render_present"
  /\ UNCHANGED <<evars, handler, a, gpu, surface_config, n_configure, n_present,
                 texture_view, last_draw, size_arg, abort_at, ops>>

render_present_reconfigure ==
  /\ pc = "render_present"
  /\ calls' = calls \o <<"pre_present_notify", "present", "configure">>
  /\ n_present' = n_present + 1
  /\ surface_config' = configure_surface(size, surface_format)
  /\ n_configure' = n_configure + 1
  /\ texture_view' = "none"
  /\ pc' = "idle"
  /\ UNCHANGED <<evars, handler, a, gpu, n_submit, last_draw, size_arg, abort_at, ops>>

\* state.rs:242-244; the view and the surface texture are dropped on return
render_present ==
  /\ pc = "render_present"
  /\ calls' = calls \o <<"pre_present_notify", "present">>
  /\ n_present' = n_present + 1
  /\ texture_view' = "none"
  /\ pc' = "idle"
  /\ UNCHANGED <<evars, handler, a, gpu, surface_config, n_configure, n_submit,
                 last_draw, size_arg, abort_at, ops>>

Next ==
  \/ State_new_begin
  \/ State_new_request_adapter
  \/ State_new_adapter_fail
  \/ State_new_request_device
  \/ State_new_device_fail
  \/ \E inner_size \in Sizes, formats \in CapLists :
       State_new_no_format(inner_size, formats)
  \/ \E inner_size \in Sizes, formats \in CapLists, outcome \in {"ok", "panic"} :
       State_new_setup(inner_size, formats, outcome)
  \/ \E new_size \in Sizes, outcome \in {"ok", "panic"} : resize(new_size, outcome)
  \/ render_acquire
  \/ render_acquire_fail
  \/ render_encode
  \/ render_submit
  \/ render_present

Spec == Init /\ [][Next]_vars

\* ---------------------------------------------------------------- helpers
Count(seq, x) == Cardinality({i \in 1..Len(seq) : seq[i] = x})
Before(seq, x, y) ==
  \A j \in 1..Len(seq) : seq[j] = y => \E i \in 1..(j - 1) : seq[i] = x
StateExists == pc \in {"idle", "render_encode", "render_submit", "render_present"}
RenderCalls ==
  <<"get_current_texture", "create_view", "create_command_encoder",
    "begin_render_pass", "set_pipeline", "set_vertex_buffer", "set_index_buffer",
    "draw_indexed", "end_render_pass", "finish", "submit", "pre_present_notify",
    "present">>

\* ----------------------------------------------------------------- claims
\* C1: build returns as many vertices as the argument of the most recent
\* with_shape call has points (none if with_shape was never called), and the
\* i-th vertex's position is the i-th point of that argument.
C1_BuildKeepsShape ==
  epc = "built" =>
    LET v == IF shape_arg.called THEN shape_arg.v ELSE <<>> IN
      /\ Len(output) = Len(v)
      /\ \A i \in 1..Len(v) : output[i].position = v[i]

C1_Witness ==
  /\ epc = "built"
  /\ Count(hist, "with_shape") >= 2
  /\ Len(output) = 2
  /\ output[1].position # output[2].position

\* C2: every vertex returned by build carries the colour the builder holds at
\* build time: the argument of the last with_color call, wherever it came
\* relative to with_shape, and transparent black if with_color was never
\* called; with_shape and with_color commute.
C2_BuildColor ==
  /\ epc = "built" =>
       LET c == IF color_arg.called THEN color_arg.v ELSE TransparentBlack IN
         \A i \in 1..Len(output) : output[i].color = c
  /\ \A shape \in Shapes, color \in Colors :
       build(with_color(with_shape(element, shape), color))
         = build(with_shape(with_color(element, color), shape))

C2_Witness ==
  /\ hist = <<"with_color", "with_shape", "with_color", "build">>
  /\ output # <<>>
  /\ color_arg.v # TransparentBlack
  /\ element.color = color_arg.v

\* C3: once the State exists, the width and height of the configuration last
\* passed to the surface equal the stored size, which equals the last resize
\* argument (or the window's inner size read by new); every resize call,
\* zero-sized or not, stores new_size and configures the surface exactly once.
C3_SizeConfigured ==
  /\ [](StateExists =>
          /\ surface_config.width = size.width
          /\ surface_config.height = size.height
          /\ size = size_arg)
  /\ [][(handler' = "resize" /\ ops' = ops + 1) =>
          /\ size' = size_arg'
          /\ surface_config'.width = size_arg'.width
          /\ surface_config'.height = size_arg'.height
          /\ n_configure' = n_configure + 1
          /\ calls' = <<"configure">>]_vars

C3_Witness ==
  /\ handler = "resize" /\ pc = "idle"
  /\ ops = 2
  /\ size.width = 0 /\ size.height = 1
  /\ n_configure = 3

C5_AcquireFailureAborts ==
  /\ [](abort_at = "get_current_texture" =>
          /\ pc = "aborted"
          /\ calls = <<"get_current_texture">>)
  /\ [][(abort_at' = "get_current_texture") =>
          UNCHANGED <<n_submit, n_present, n_configure, surface_config>>]_vars
  /\ [][(abort_at = "get_current_texture") => UNCHANGED svars]_vars

C5_Witness ==
  /\ abort_at = "get_current_texture"
  /\ pc = "aborted"
  /\ n_present = 1

\* C6: when adapter or device acquisition fails, new aborts: no State is
\* returned, no pipeline or buffer is created, the surface is never configured
\* and the request is not repeated; when new returns a State, the surface has
\* been configured exactly once, after the pipeline and the buffers were created.
C6_NewAbortsOrConfiguresOnce ==
  /\ abort_at \in {"request_adapter", "request_device"} =>
       /\ pc = "aborted"
       /\ Count(calls, abort_at) = 1
       /\ \A i \in 1..Len(calls) :
            calls[i] \in {"create_surface", "request_adapter", "request_device"}
       /\ render_pipeline = RenderPipeline("none")
       /\ vertex_buffer = <<>> /\ index_buffer = <<>>
       /\ n_configure = 0
  /\ (handler = "new" /\ pc = "idle") =>
       /\ n_configure = 1
       /\ Count(calls, "configure") = 1
       /\ Before(calls, "create_render_pipeline", "configure")
       /\ Before(calls, "create_buffer_init(vertex)", "configure")
       /\ Before(calls, "create_buffer_init(index)", "configure")
       /\ Before(calls, "request_device", "create_render_pipeline")

C6_Witness ==
  /\ abort_at = "request_device"
  /\ pc = "aborted"
  /\ Count(calls, "request_adapter") = 1

C8_BuffersFixed ==
  /\ [][StateExists =>
          UNCHANGED <<vertex_buffer, index_buffer, num_indices, render_pipeline,
                      surface_format>>]_vars
  /\ [][(StateExists /\ handler' = "render") =>
          UNCHANGED <<size, surface_config, n_configure>>]_vars
  /\ [](handler \in {"resize", "render"} =>
          /\ Count(calls, "create_buffer_init(vertex)") = 0
          /\ Count(calls, "create_buffer_init(index)") = 0
          /\ Count(calls, "create_render_pipeline") = 0)

C8_Witness ==
  /\ handler = "render" /\ pc = "idle"
  /\ n_configure = 3
  /\ n_present = 1
  /\ Len(vertex_buffer) = 3

\* C9: once the State exists every stored index is below the number of
\* vertices in the bound vertex buffer, num_indices is the number of stored
\* indices, which is 3 over 3 vertices, and a recorded draw reads only
\* indices and vertices that exist.
C9_IndicesInBounds ==
  /\ StateExists =>
       /\ \A i \in 1..Len(index_buffer) :
            index_buffer[i] >= 0 /\ index_buffer[i] < Len(vertex_buffer)
       /\ num_indices = Len(index_buffer)
       /\ num_indices = 3
       /\ Len(vertex_buffer) = 3
  /\ last_draw # NoDraw =>
       /\ last_draw.first + last_draw.count <= Len(last_draw.indices)
       /\ \A i \in (last_draw.first + 1)..(last_draw.first + last_draw.count) :
            last_draw.indices[i] < Len(last_draw.vertices)

C9_Witness ==
  /\ pc = "render_submit"
  /\ last_draw.count = 3
  /\ Len(last_draw.vertices) = 3

\* C10: in every render the colour target format of the pipeline equals the
\* format of the view used as the colour attachment, and that view format is
\* one of the view formats of the current surface configuration.
C10_PipelineMatchesView ==
  pc \in {"render_submit", "render_present"} =>
    /\ last_draw.pipeline.target_format = last_draw.view_format
    /\ last_draw.view_format \in surface_config.view_formats
====
